---------------------------- MODULE Spec2Model ----------------------------
(***************************************************************************)
(* Torchlite learner cores (src/torchlite/nn/learners/cores.py).           *)
(*                                                                         *)
(* One core object is constructed (a ClassifierCore or a SRGanCore) and    *)
(* then driven by an external loop through on_new_epoch, on_train_mode,    *)
(* on_eval_mode, to_gpu, get_models and on_forward_batch.                  *)
(*                                                                         *)
(* `self` is the attribute dictionary of the core object.  A model object  *)
(* (nn.Module) is a record: its class name, its training flag, its device, *)
(* the version of its parameters (every optimizer step yields the next     *)
(* version) and the gradient accumulated on its parameters (the sequence   *)
(* of losses backpropagated into it since its last zero_grad).             *)
(* Python dicts are functions over a finite set of string keys.            *)
(*                                                                         *)
(* Spec is that loop with every collaborator call succeeding.  SpecFail is *)
(* the loop of on_new_epoch and on_forward_batch calls in which a model,   *)
(* criterion or optimizer call may raise.  SpecFiles is a program calling  *)
(* the cache functions of src/torchlight/data/files.py on one directory.   *)
(***************************************************************************)
EXTENDS Integers, Sequences, FiniteSets, TLC

VARIABLES
    cls,      \* class of the constructed core
    self,     \* the core object's attributes
    call,     \* the most recent operation called on the core, with its step
    events,   \* the collaborator calls made by the most recent operation, in order
    ret,      \* what the most recent operation returned
    hist,     \* the on_forward_batch calls since the last on_new_epoch
    disk      \* the cache directory of torchlight.data.files and its entries

vars == <<cls, self, call, events, ret, hist, disk>>

-----------------------------------------------------------------------------
(* Bounds *)

MaxBatch == 2     \* the distinct batches 1..MaxBatch, each with its own loss values
MaxCalls == 3     \* on_forward_batch calls per epoch
MaxSteps == 2     \* optimizer steps per model over the whole run
MaxFiles == 3     \* the distinct image files 1..MaxFiles
MaxWrites == 2    \* times one cache entry is written over the whole run

Batches == 1..MaxBatch

\* The criteria are opaque callables; these are the values they return on batch b.
\* The streams of one batch are pairwise distinct, and differ from batch to batch.
LossOf(b) == b
DLossOf(b) == b + 4
GTermsOf(b) == <<b, b + 1, b + 2, b + 3>>

\* step values: the three BaseCore documents, and "eval" that SRGanCore tests for
Steps == {"training", "validation", "prediction", "eval"}

-----------------------------------------------------------------------------
(* Python dict *)

EmptyDict == [k \in {} |-> 0]

\* dict.update(other): the keys of other replace those of d
update(d, other) ==
    [k \in DOMAIN d \cup DOMAIN other |-> IF k \in DOMAIN other THEN other[k] ELSE d[k]]

None == [type |-> "NoneType"]

-----------------------------------------------------------------------------
(* Exact fractions <<numerator, denominator>> in lowest terms, for the     *)
(* float divisions of the running averages.                                *)

RECURSIVE GCD(_, _)
GCD(a, b) == IF b = 0 THEN a ELSE GCD(b, a % b)

Rat(n, d) == LET g == GCD(n, d) IN <<n \div g, d \div g>>

RECURSIVE Pow2(_)
Pow2(n) == IF n = 0 THEN 1 ELSE 2 * Pow2(n - 1)

RECURSIVE SumSeq(_)
SumSeq(q) == IF q = <<>> THEN 0 ELSE Head(q) + SumSeq(Tail(q))

-----------------------------------------------------------------------------
(* tensor_tools.AverageMeter: running sum and count, and an exponential    *)
(* moving average (decay 1/2, kept as mom = 2^count * ema) read through    *)
(* debias_loss = ema / (1 - decay^count).                                  *)

AverageMeter == [sum |-> 0, count |-> 0, mom |-> 0]

AverageMeter_update(m, val) ==
    [sum |-> m.sum + val, count |-> m.count + 1, mom |-> m.mom + Pow2(m.count) * val]

avg(m) == IF m.count = 0 THEN <<0, 1>> ELSE Rat(m.sum, m.count)

debias_loss(m) == IF m.count = 0 THEN <<0, 1>> ELSE Rat(m.mom, Pow2(m.count) - 1)

\* tensor_tools.to_gpu(model): the model's parameters move to the accelerator
to_gpu(m) == [m EXCEPT !.device = "gpu"]

-----------------------------------------------------------------------------
(* nn.Module, Optimizer and loss tensors, as the cores use them *)

Module(name, training) ==
    [name |-> name, training |-> training, device |-> "cpu", params |-> 0, grad |-> <<>>]

train(m) == [m EXCEPT !.training = TRUE]

eval(m) == [m EXCEPT !.training = FALSE]

\* the output tensor of a forward pass: which model, with which parameters, on what
forward(m, x) == [by |-> m.name, params |-> m.params, of |-> x]

zero_grad(m) == [m EXCEPT !.grad = <<>>]

\* loss.backward() accumulates the loss's gradient on a model of its graph
backward(m, loss) == [m EXCEPT !.grad = Append(@, loss)]

\* optimizer.step(): the optimizer's model gets its next parameters
optim_step(m) == [m EXCEPT !.params = @ + 1]

\* one collaborator call: what was called, on which object, with which argument,
\* and the version of the model parameters involved (for a criterion: the version
\* of the parameters that produced the output handed to it)
Ev(fn, on, arg, ver) == [fn |-> fn, on |-> on, arg |-> arg, ver |-> ver]

\* an operation in progress: the object, the calls made so far, the value returned
\* (or the exception raised); fault is the position of the collaborator call that
\* raises (0: every call succeeds), raised tells that it has raised
Run(s, evs, r) == [self |-> s, events |-> evs, ret |-> r, fault |-> 0, raised |-> FALSE]

\* the exception a collaborator call raises
Exception(ev) == [type |-> "Exception", fn |-> ev.fn, on |-> ev.on]

\* a variant in which a raising call is caught and the method goes on
Try_swallowing(r, ev, done) == [done EXCEPT !.events = Append(r.events, ev)]

\* one collaborator call of a method without try/except: when the call raises,
\* its effect does not happen and the exception leaves the method at once; done
\* is the run after the call has succeeded
Try(r, ev, done) ==
    IF r.raised THEN r
    ELSE IF Len(r.events) + 1 = r.fault
         THEN [r EXCEPT !.events = Append(@, ev), !.raised = TRUE, !.ret = Exception(ev)]
         ELSE [done EXCEPT !.events = Append(r.events, ev)]

\* a statement that calls no collaborator: reached only if nothing has raised
Then(r, done) == IF r.raised THEN r ELSE done

\* return v
Return(r, v) == IF r.raised THEN r ELSE [r EXCEPT !.ret = v]

-----------------------------------------------------------------------------
(* torchlight/data/files.py. The disk is the directory to_dir: whether it    *)
(* exists, and for each cache entry in it (a bcolz directory named after the *)
(* image file) how many times it has been written.                           *)

FileNames == 1..MaxFiles

\* the disk before to_dir has been created
NoDir == [exists |-> FALSE, cache |-> EmptyDict]

\* os.path.join(to_dir, file_name)
join(dir, file_name) == [dir |-> dir, name |-> file_name]

\* os.path.isdir(img_blosc_path)
isdir(d, path) == d.exists /\ path.name \in DOMAIN d.cache

\* os.makedirs(to_dir)
makedirs(d) == [d EXCEPT !.exists = TRUE]

\* bcolz.carray(image, rootdir=img_blosc_path, mode="w") and flush(): the entry is
\* created, or written over
carray(d, path) ==
    [d EXCEPT !.cache =
        (path.name :> (IF path.name \in DOMAIN @ THEN @[path.name] + 1 ELSE 1)) @@ @]

RECURSIVE cache_files(_, _, _)
\* lines 43-46: the loop that reads and caches the files, one after the other
cache_files(r, files, blosc_files) ==
    IF files = <<>> THEN r
    ELSE cache_files(
            [r EXCEPT !.disk = carray(@, Head(blosc_files)),
                      !.events = @ \o <<Ev("imread", Head(files), "-", 0),
                                        Ev("carray", Head(blosc_files).name, "w", 0),
                                        Ev("flush", Head(blosc_files).name, "-", 0)>>],
            Tail(files), Tail(blosc_files))

\* files is the list of image files, each named by its base name
to_blosc_arrays(d, files) ==
    LET d1 == IF ~d.exists THEN makedirs(d) ELSE d
        blosc_files == [i \in 1..Len(files) |-> join("to_dir", files[i])]
        files_exists == \A i \in 1..Len(files) : isdir(d1, blosc_files[i])
        r == [disk |-> d1, events |-> <<>>, ret |-> blosc_files]
    IN  IF files_exists THEN r ELSE cache_files(r, files, blosc_files)

\* os.makedirs(path, exist_ok=True)
create_dir_if_not_exists(d) == makedirs(d)

\* shutil.rmtree(path) if it exists, then os.makedirs(path)
del_dir_if_exists(d) == makedirs(IF d.exists THEN NoDir ELSE d)

-----------------------------------------------------------------------------
(* class ClassifierCore *)

ClassifierCore_init(model, optimizer, criterion) ==
    [crit |-> criterion, optim |-> optimizer, model |-> model,
     logs |-> EmptyDict, avg_meter |-> AverageMeter]

ClassifierCore_get_models(s) == (s.model.name :> s.model)

ClassifierCore_get_logs(s) == s.logs

\* a variant that replaces the meter but keeps the logs
ClassifierCore_on_new_epoch_keeping_logs(s) == [s EXCEPT !.avg_meter = AverageMeter]

\* a variant that also puts the model back into training mode
ClassifierCore_on_new_epoch_train_mode(s) ==
    [s EXCEPT !.logs = EmptyDict, !.avg_meter = AverageMeter, !.model = train(@)]

ClassifierCore_on_new_epoch(s) ==
    [s EXCEPT !.logs = EmptyDict, !.avg_meter = AverageMeter]

ClassifierCore_on_train_mode(s) == [s EXCEPT !.model = train(@)]

ClassifierCore_on_eval_mode(s) == [s EXCEPT !.model = eval(@)]

ClassifierCore_to_gpu(s) == [s EXCEPT !.model = to_gpu(@)]

\* a variant that computes a loss on every step
ClassifierCore_computes_loss_always(step) == TRUE

\* line 108: the steps that compute a loss
ClassifierCore_computes_loss(step) == step # "prediction"

\* a variant that optimizes whenever a loss was computed
ClassifierCore_optimizes_on_any_loss(step) == step # "prediction"

\* line 116: the steps that run backward + optimize
ClassifierCore_optimizes(step) == step = "training"

\* lines 117-119: optim.zero_grad(); loss.backward(); optim.step()
ClassifierCore_backward_optimize(r) ==
    LET m0 == r.self.model
        r1 == Try(r, Ev("zero_grad", r.self.optim.name, "-", m0.params),
                  [r EXCEPT !.self.model = zero_grad(@)])
        r2 == Try(r1, Ev("backward", "loss", "-", m0.params),
                  [r1 EXCEPT !.self.model = backward(@, "loss")])
    IN  Try(r2, Ev("step", r.self.optim.name, "-", optim_step(m0).params),
            [r2 EXCEPT !.self.model = optim_step(@)])

\* loss is the value the criterion returns for this batch (loss.data[0]); fault is
\* the position of the collaborator call that raises (0: none does)
ClassifierCore_on_forward_batch(s, step, loss, fault) ==
    LET logits == forward(s.model, "inputs")
        r == [Run(s, <<>>, None) EXCEPT !.fault = fault]
        r0 == Try(r, Ev("forward", "model", "inputs", s.model.params), r)
    IN  IF ClassifierCore_computes_loss(step)
        THEN LET r1 == Try(r0, Ev("criterion", "crit", "logits", logits.params), r0)
                 meter == AverageMeter_update(s.avg_meter, loss)
                 r2 == Then(r1, [r1 EXCEPT
                                   !.self.avg_meter = meter,
                                   !.self.logs = update(@, "batch_logs" :> ("loss" :> loss))])
             IN  IF ClassifierCore_optimizes(step)
                 THEN LET r3 == ClassifierCore_backward_optimize(r2)
                          r4 == Then(r3, [r3 EXCEPT !.self.logs =
                                  update(@, "epoch_logs" :> ("train loss" :> debias_loss(meter)))])
                      IN  Return(r4, logits)
                 ELSE LET r4 == Then(r2, [r2 EXCEPT !.self.logs =
                                  update(@, "epoch_logs" :> ("valid loss" :> debias_loss(meter)))])
                      IN  Return(r4, logits)
        ELSE Return(r0, logits)

-----------------------------------------------------------------------------
(* class SRGanCore *)

SRGanCore_get_models(s) == (s.netD.name :> s.netD) @@ (s.netG.name :> s.netG)

SRGanCore_get_logs(s) == s.logs

\* a variant that replaces five of the six meters
SRGanCore_on_new_epoch_five_meters(s) ==
    [logs |-> EmptyDict,
     g_avg_meter |-> AverageMeter,
     d_avg_meter |-> AverageMeter,
     mse_loss_meter |-> AverageMeter,
     adversarial_loss_meter |-> AverageMeter,
     vgg_loss_meter |-> AverageMeter,
     tv_loss_meter |-> IF "tv_loss_meter" \in DOMAIN s THEN s.tv_loss_meter
                       ELSE AverageMeter] @@ s

SRGanCore_on_new_epoch(s) ==
    [logs |-> EmptyDict,
     g_avg_meter |-> AverageMeter,
     d_avg_meter |-> AverageMeter,
     mse_loss_meter |-> AverageMeter,
     adversarial_loss_meter |-> AverageMeter,
     vgg_loss_meter |-> AverageMeter,
     tv_loss_meter |-> AverageMeter] @@ s

SRGanCore_init(generator, discriminator, g_optimizer, d_optimizer, g_criterion) ==
    SRGanCore_on_new_epoch(
        [g_criterion |-> g_criterion, d_optim |-> d_optimizer, g_optim |-> g_optimizer,
         netD |-> discriminator, netG |-> generator, eps |-> "1e-12"])

SRGanCore_on_train_mode(s) == [s EXCEPT !.netG = train(@), !.netD = train(@)]

\* a variant that switches the generator only
SRGanCore_on_eval_mode_generator_only(s) == [s EXCEPT !.netG = eval(@)]

SRGanCore_on_eval_mode(s) == [s EXCEPT !.netG = eval(@), !.netD = eval(@)]

\* a variant that also puts both models into inference mode
SRGanCore_to_gpu_eval_mode(s) ==
    [s EXCEPT !.netG = eval(to_gpu(@)), !.netD = eval(to_gpu(@))]

SRGanCore_to_gpu(s) == [s EXCEPT !.netG = to_gpu(@), !.netD = to_gpu(@)]

\* line 186: the batch_logs entry
SRGanCore_batch_logs(g_loss, d_loss) == [g_loss |-> g_loss, d_loss |-> d_loss]

\* a variant that forgets the tv entry
SRGanCore_epoch_logs_without_tv(s) ==
    [generator |-> avg(s.g_avg_meter),
     discriminator |-> avg(s.d_avg_meter),
     mse |-> avg(s.mse_loss_meter),
     adversarial |-> avg(s.adversarial_loss_meter),
     vgg |-> avg(s.vgg_loss_meter)]

\* a variant that reads two of the entries from each other's meter
SRGanCore_epoch_logs_crossed(s) ==
    [generator |-> avg(s.g_avg_meter),
     discriminator |-> avg(s.d_avg_meter),
     mse |-> avg(s.adversarial_loss_meter),
     adversarial |-> avg(s.mse_loss_meter),
     vgg |-> avg(s.vgg_loss_meter),
     tv |-> avg(s.tv_loss_meter)]

\* lines 187-192: the epoch_logs entry, read from the six meters
SRGanCore_epoch_logs(s) ==
    [generator |-> avg(s.g_avg_meter),
     discriminator |-> avg(s.d_avg_meter),
     mse |-> avg(s.mse_loss_meter),
     adversarial |-> avg(s.adversarial_loss_meter),
     vgg |-> avg(s.vgg_loss_meter),
     tv |-> avg(s.tv_loss_meter)]

SRGanCore_update_loss_logs(s, g_loss, d_loss, mse_loss, adversarial_loss, vgg_loss, tv_loss) ==
    LET s1 == [s EXCEPT !.g_avg_meter = AverageMeter_update(@, g_loss),
                        !.d_avg_meter = AverageMeter_update(@, d_loss),
                        !.mse_loss_meter = AverageMeter_update(@, mse_loss),
                        !.adversarial_loss_meter = AverageMeter_update(@, adversarial_loss),
                        !.vgg_loss_meter = AverageMeter_update(@, vgg_loss),
                        !.tv_loss_meter = AverageMeter_update(@, tv_loss)]
        l1 == update(s1.logs, "batch_logs" :> SRGanCore_batch_logs(g_loss, d_loss))
        l2 == update(l1, "epoch_logs" :> SRGanCore_epoch_logs(s1))
    IN  [s1 EXCEPT !.logs = l2]

SRGanCore_on_eval(r, images) ==
    LET sr_images == forward(r.self.netG, images)
    IN  Return(Try(r, Ev("forward", "netG", images, r.self.netG.params), r), sr_images)

\* a variant that also has the discriminator judge the output
SRGanCore_on_validation_judged(r, lr_images, hr_images) ==
    LET sr_images == forward(r.self.netG, lr_images)
    IN  [r EXCEPT !.events = @ \o <<Ev("forward", "netG", lr_images, r.self.netG.params),
                                    Ev("forward", "netD", "sr_images", r.self.netD.params)>>,
                  !.ret = sr_images]

SRGanCore_on_validation(r, lr_images, hr_images) ==
    LET sr_images == forward(r.self.netG, lr_images)
    IN  Return(Try(r, Ev("forward", "netG", lr_images, r.self.netG.params), r), sr_images)

\* a variant that steps the optimizer before the gradient is computed
SRGanCore_optimize_step_first(r, model, optim, loss, retain_graph) ==
    LET s0 == r.self
        s1 == [s0 EXCEPT ![s0[optim].model] = optim_step(@)]
        s2 == [s1 EXCEPT ![model] = zero_grad(@)]
        s3 == [s2 EXCEPT !.netG = backward(@, loss), !.netD = backward(@, loss)]
    IN  [r EXCEPT !.self = s3,
                  !.events = @ \o
                     <<Ev("step", optim, "-", s1[s0[optim].model].params),
                       Ev("zero_grad", model, "-", s1[model].params),
                       Ev("backward", loss, IF retain_graph THEN "retain_graph" ELSE "-",
                          s1[model].params)>>]

\* a variant that does not zero the gradient
SRGanCore_optimize_keeping_grad(r, model, optim, loss, retain_graph) ==
    LET s0 == r.self
        stepped == s0[optim].model
        r2 == Try(r, Ev("backward", loss, IF retain_graph THEN "retain_graph" ELSE "-",
                        s0[model].params),
                  [r EXCEPT !.self.netG = backward(@, loss), !.self.netD = backward(@, loss)])
    IN  Try(r2, Ev("step", optim, "-", optim_step(s0[stepped]).params),
            [r2 EXCEPT !.self[stepped] = optim_step(@)])

\* model and optim are attribute names; the optimizer steps the model it was built
\* for; the loss's graph runs through both networks (sr_images is not detached)
SRGanCore_optimize(r, model, optim, loss, retain_graph) ==
    LET s0 == r.self
        stepped == s0[optim].model
        r1 == Try(r, Ev("zero_grad", model, "-", s0[model].params),
                  [r EXCEPT !.self[model] = zero_grad(@)])
        r2 == Try(r1, Ev("backward", loss, IF retain_graph THEN "retain_graph" ELSE "-",
                         s0[model].params),
                  [r1 EXCEPT !.self.netG = backward(@, loss), !.self.netD = backward(@, loss)])
    IN  Try(r2, Ev("step", optim, "-", optim_step(s0[stepped]).params),
            [r2 EXCEPT !.self[stepped] = optim_step(@)])

\* d_loss and the four terms are the values the two criteria return for this batch
SRGanCore_on_training(r, lr_images, hr_images, d_loss, terms) ==
    LET s == r.self
        sr_images == forward(s.netG, lr_images)
        d_hr_out == forward(s.netD, hr_images)
        d_sr_out == forward(s.netD, "sr_images")
        f1 == Try(r, Ev("forward", "netG", lr_images, sr_images.params), r)
        f2 == Try(f1, Ev("forward", "netD", hr_images, d_hr_out.params), f1)
        r1 == Try(f2, Ev("forward", "netD", "sr_images", d_sr_out.params), f2)
        r2 == SRGanCore_optimize(r1, "netD", "d_optim", "d_loss", TRUE)
        mse_loss == terms[1]
        adversarial_loss == terms[2]
        vgg_loss == terms[3]
        tv_loss == terms[4]
        r3 == Try(r2, Ev("criterion", "g_criterion", "d_sr_out", d_sr_out.params), r2)
        g_loss == mse_loss + adversarial_loss + vgg_loss + tv_loss
        r4 == SRGanCore_optimize(r3, "netG", "g_optim", "g_loss", FALSE)
        r5 == Then(r4, [r4 EXCEPT
                          !.self = SRGanCore_update_loss_logs(@, g_loss, d_loss, mse_loss,
                                                              adversarial_loss, vgg_loss, tv_loss),
                          !.events = Append(@, Ev("_update_loss_logs", "self", "-", 0))])
    IN  Return(r5, sr_images)

\* a variant that keeps the logs of the earlier call
SRGanCore_reset_logs_skipped(s) == s

\* line 239: self.logs = {}
SRGanCore_reset_logs(s) == [s EXCEPT !.logs = EmptyDict]

SRGanCore_on_forward_batch(s, step, d_loss, terms, fault) ==
    LET r == [Run(SRGanCore_reset_logs(s), <<>>, None) EXCEPT !.fault = fault]
    IN  IF step = "training" THEN SRGanCore_on_training(r, "inputs", "targets", d_loss, terms)
        ELSE IF step = "validation" THEN SRGanCore_on_validation(r, "inputs", "targets")
        ELSE IF step = "eval" THEN SRGanCore_on_eval(r, "inputs")
        ELSE r

-----------------------------------------------------------------------------
(* The external loop: construction, then any sequence of operations *)

Called(op, step) == [op |-> op, step |-> step]

Optimizer(name, model) == [name |-> name, model |-> model]

\* BaseCore.get_logs, dispatched on the class of the core
get_logs ==
    IF cls = "ClassifierCore" THEN ClassifierCore_get_logs(self) ELSE SRGanCore_get_logs(self)

Init ==
    /\ cls \in {"ClassifierCore", "SRGanCore"}
    /\ \E tg \in BOOLEAN, td \in BOOLEAN :
          self = IF cls = "ClassifierCore"
                 THEN ClassifierCore_init(Module("Net", tg), Optimizer("optim", "model"),
                                          "criterion")
                 ELSE SRGanCore_init(Module("Generator", tg), Module("Discriminator", td),
                                     Optimizer("g_optimizer", "netG"),
                                     Optimizer("d_optimizer", "netD"), "g_criterion")
    /\ call = Called("__init__", "-")
    /\ events = <<>>
    /\ ret = None
    /\ hist = <<>>
    /\ disk = NoDir

\* an operation that is not on_forward_batch: new attributes, collaborator calls
Operation(c, op, s, evs, r) ==
    /\ cls = c
    /\ self' = s
    /\ call' = Called(op, "-")
    /\ events' = evs
    /\ ret' = r
    /\ hist' = IF op = "on_new_epoch" THEN <<>> ELSE hist
    /\ UNCHANGED <<cls, disk>>

Call_ClassifierCore_on_new_epoch ==
    Operation("ClassifierCore", "on_new_epoch", ClassifierCore_on_new_epoch(self), <<>>, None)

Call_ClassifierCore_on_train_mode ==
    Operation("ClassifierCore", "on_train_mode", ClassifierCore_on_train_mode(self),
              <<Ev("train", "model", "-", self.model.params)>>, None)

Call_ClassifierCore_on_eval_mode ==
    Operation("ClassifierCore", "on_eval_mode", ClassifierCore_on_eval_mode(self),
              <<Ev("eval", "model", "-", self.model.params)>>, None)

Call_ClassifierCore_to_gpu ==
    Operation("ClassifierCore", "to_gpu", ClassifierCore_to_gpu(self),
              <<Ev("to_gpu", "model", "-", self.model.params)>>, None)

Call_ClassifierCore_get_models ==
    Operation("ClassifierCore", "get_models", self, <<>>, ClassifierCore_get_models(self))

Call_SRGanCore_on_new_epoch ==
    Operation("SRGanCore", "on_new_epoch", SRGanCore_on_new_epoch(self), <<>>, None)

Call_SRGanCore_on_train_mode ==
    Operation("SRGanCore", "on_train_mode", SRGanCore_on_train_mode(self),
              <<Ev("train", "netG", "-", self.netG.params),
                Ev("train", "netD", "-", self.netD.params)>>, None)

Call_SRGanCore_on_eval_mode ==
    Operation("SRGanCore", "on_eval_mode", SRGanCore_on_eval_mode(self),
              <<Ev("eval", "netG", "-", self.netG.params),
                Ev("eval", "netD", "-", self.netD.params)>>, None)

Call_SRGanCore_to_gpu ==
    Operation("SRGanCore", "to_gpu", SRGanCore_to_gpu(self),
              <<Ev("to_gpu", "netG", "-", self.netG.params),
                Ev("to_gpu", "netD", "-", self.netD.params)>>, None)

Call_SRGanCore_get_models ==
    Operation("SRGanCore", "get_models", self, <<>>, SRGanCore_get_models(self))

\* a call without targets ("prediction", "eval") carries no loss values: batch 1
ForwardBatch(c, step, b, r) ==
    /\ cls = c
    /\ Len(hist) < MaxCalls
    /\ step \in {"prediction", "eval"} => b = 1
    /\ self' = r.self
    /\ call' = Called("on_forward_batch", step)
    /\ events' = r.events
    /\ ret' = r.ret
    /\ hist' = Append(hist, [step |-> step, batch |-> b])
    /\ UNCHANGED <<cls, disk>>

Call_ClassifierCore_on_forward_batch ==
    \E step \in {"training", "validation", "prediction"}, b \in Batches :
        /\ cls = "ClassifierCore"
        /\ step = "training" => self.model.params < MaxSteps
        /\ ForwardBatch("ClassifierCore", step, b,
                        ClassifierCore_on_forward_batch(self, step, LossOf(b), 0))

Call_SRGanCore_on_forward_batch ==
    \E step \in Steps, b \in Batches :
        /\ cls = "SRGanCore"
        /\ step = "training" => self.netG.params < MaxSteps /\ self.netD.params < MaxSteps
        /\ ForwardBatch("SRGanCore", step, b,
                        SRGanCore_on_forward_batch(self, step, DLossOf(b), GTermsOf(b), 0))

Next ==
    \/ Call_ClassifierCore_on_new_epoch
    \/ Call_ClassifierCore_on_train_mode
    \/ Call_ClassifierCore_on_eval_mode
    \/ Call_ClassifierCore_to_gpu
    \/ Call_ClassifierCore_get_models
    \/ Call_ClassifierCore_on_forward_batch
    \/ Call_SRGanCore_on_new_epoch
    \/ Call_SRGanCore_on_train_mode
    \/ Call_SRGanCore_on_eval_mode
    \/ Call_SRGanCore_to_gpu
    \/ Call_SRGanCore_get_models
    \/ Call_SRGanCore_on_forward_batch

Spec == Init /\ [][Next]_vars

-----------------------------------------------------------------------------
(* Properties *)

IsForwardBatch(c) == c.op = "on_forward_batch"

AfterBatch(c, step) == cls = c /\ call = Called("on_forward_batch", step)

\* C1: after any SRGanCore on_forward_batch("training", ...) call, whatever came
\* before it, get_logs["batch_logs"] has exactly the keys g_loss and d_loss and
\* get_logs["epoch_logs"] exactly the keys generator, discriminator, mse,
\* adversarial, vgg and tv.
C1_TrainingLogKeys ==
    AfterBatch("SRGanCore", "training") =>
        /\ DOMAIN get_logs = {"batch_logs", "epoch_logs"}
        /\ DOMAIN get_logs["batch_logs"] = {"g_loss", "d_loss"}
        /\ DOMAIN get_logs["epoch_logs"] =
              {"generator", "discriminator", "mse", "adversarial", "vgg", "tv"}

\* a training call that follows a validation call and an earlier training call
C1_Witness ==
    /\ AfterBatch("SRGanCore", "training")
    /\ Len(hist) = 3
    /\ hist[1].step = "training"
    /\ hist[2].step = "validation"

\* C2: for both cores get_logs is the empty mapping from construction, and again
\* from every on_new_epoch call, until the next on_forward_batch call: hist is
\* empty exactly in those stretches, whatever other operations were called.
C2_LogsEmptyUntilBatch == hist = <<>> => get_logs = EmptyDict

\* a to_gpu call in a later epoch (training happened before), before its first batch
C2_Witness ==
    /\ cls = "SRGanCore"
    /\ hist = <<>>
    /\ call.op = "to_gpu"
    /\ self.netG.params > 0

Meters(s) ==
    <<s.g_avg_meter, s.d_avg_meter, s.mse_loss_meter,
      s.adversarial_loss_meter, s.vgg_loss_meter, s.tv_loss_meter>>

\* the step taken is a SRGanCore on_forward_batch call with step "eval" or "validation"
SRGanEvalStep ==
    /\ cls = "SRGanCore"
    /\ IsForwardBatch(call')
    /\ call'.step \in {"eval", "validation"}

\* C3 as stated: a SRGanCore on_forward_batch call with step "eval" or
\* "validation" leaves get_logs equal to what it was before the call, in every
\* state the call can be made in.
C3_EvalLeavesLogsAsTheyWere == [][SRGanEvalStep => get_logs' = get_logs]_vars

\* C3, amended: such a call writes no entry and updates no running average, but
\* it clears the logs: get_logs after the call is the empty mapping.
C3_EvalClearsLogs ==
    [][SRGanEvalStep => get_logs' = EmptyDict /\ Meters(self') = Meters(self)]_vars

\* an eval call made right after a training batch of the same epoch
C3_Witness ==
    /\ AfterBatch("SRGanCore", "eval")
    /\ Len(hist) = 2
    /\ hist[1].step = "training"
    /\ self.g_avg_meter.count = 1

\* C4: a SRGanCore on_forward_batch call with step "validation" or "eval" makes
\* one collaborator call, a forward pass of the generator (so no discriminator,
\* criterion, zero_grad, backward or optimizer step), and leaves both models
\* (their parameters included) and the six running averages unchanged.
C4_EvalOnlyRunsGenerator ==
    [][SRGanEvalStep =>
         /\ Len(events') = 1
         /\ events'[1].fn = "forward"
         /\ events'[1].on = "netG"
         /\ self'.netG = self.netG
         /\ self'.netD = self.netD
         /\ Meters(self') = Meters(self)]_vars

\* a validation call after two training batches
C4_Witness ==
    /\ AfterBatch("SRGanCore", "validation")
    /\ self.netG.params = 2
    /\ self.netD.params = 2
    /\ self.tv_loss_meter.count = 2

\* the optimizer operations among some collaborator calls, in order
OptimizerCalls(evs) ==
    LET IsOpt(e) == e.fn \in {"zero_grad", "backward", "step"}
        sel == SelectSeq(evs, IsOpt)
    IN  [i \in 1..Len(sel) |-> sel[i].fn]

\* C5: a ClassifierCore on_forward_batch call runs zero_grad, backward and the
\* optimizer step, in this order and once each, when step is "training", and
\* then the model's parameters are changed; with any other step it runs none of
\* them and leaves the model exactly as it was.
C5_GradientUpdateIffTraining ==
    [][(cls = "ClassifierCore" /\ IsForwardBatch(call')) =>
         IF call'.step = "training"
         THEN /\ OptimizerCalls(events') = <<"zero_grad", "backward", "step">>
              /\ self'.model.params # self.model.params
         ELSE /\ OptimizerCalls(events') = <<>>
              /\ self'.model = self.model]_vars

\* a validation call after a training call of the same epoch
C5_Witness ==
    /\ AfterBatch("ClassifierCore", "validation")
    /\ Len(hist) = 2
    /\ hist[1].step = "training"
    /\ self.model.params = 1

-----------------------------------------------------------------------------
(* What the logs should hold, computed from the calls of the epoch *)

\* the calls that compute a loss: every ClassifierCore step but "prediction",
\* and the SRGanCore step "training"
ComputesLoss(c, step) ==
    \/ c = "ClassifierCore" /\ step # "prediction"
    \/ c = "SRGanCore" /\ step = "training"

\* the batches of the loss-computing calls among h, in order
LossBatches(c, h) ==
    LET Computing(e) == ComputesLoss(c, e.step)
        sel == SelectSeq(h, Computing)
    IN  [i \in 1..Len(sel) |-> sel[i].batch]

LossStreams == {"generator", "discriminator", "mse", "adversarial", "vgg", "tv"}

\* the value of a SRGanCore loss stream on batch b
Stream(name, b) ==
    CASE name = "generator" -> SumSeq(GTermsOf(b))
      [] name = "discriminator" -> DLossOf(b)
      [] name = "mse" -> GTermsOf(b)[1]
      [] name = "adversarial" -> GTermsOf(b)[2]
      [] name = "vgg" -> GTermsOf(b)[3]
      [] name = "tv" -> GTermsOf(b)[4]

\* arithmetic mean of a stream over the batches bs
Mean(name, bs) == Rat(SumSeq([i \in 1..Len(bs) |-> Stream(name, bs[i])]), Len(bs))

\* debiased moving average (decay 1/2) of the classifier loss over the batches bs:
\* sum of v_i / 2^(n - i + 1), divided by 1 - 1/2^n
Debiased(bs) ==
    LET n == Len(bs)
    IN  Rat(SumSeq([i \in 1..n |-> Pow2(i - 1) * LossOf(bs[i])]), Pow2(n) - 1)

\* the logs a loss-computing call should leave, h being the calls of the epoch
\* up to and including it
ExpectedLogs(c, h) ==
    LET last == h[Len(h)]
        bs == LossBatches(c, h)
    IN  IF c = "ClassifierCore"
        THEN ("batch_logs" :> ("loss" :> LossOf(last.batch))) @@
             ("epoch_logs" :> ((IF last.step = "training" THEN "train loss" ELSE "valid loss")
                                 :> Debiased(bs)))
        ELSE ("batch_logs" :> [g_loss |-> Stream("generator", last.batch),
                               d_loss |-> Stream("discriminator", last.batch)]) @@
             ("epoch_logs" :> [name \in LossStreams |-> Mean(name, bs)])

\* the most recent operation called a criterion
CalledCriterion == \E i \in 1..Len(events) : events[i].fn = "criterion"

\* C6 as stated: after any on_forward_batch call, on either core and with any
\* step, the batch_logs that get_logs exposes were computed by that very call,
\* and the epoch_logs it exposes are the cumulative values of the epoch so far.
C6_LogsAreOfThisCall ==
    IsForwardBatch(call) =>
        /\ "batch_logs" \in DOMAIN get_logs =>
              /\ CalledCriterion
              /\ get_logs["batch_logs"] = ExpectedLogs(cls, hist)["batch_logs"]
        /\ "epoch_logs" \in DOMAIN get_logs =>
              \A k \in DOMAIN get_logs["epoch_logs"] :
                  get_logs["epoch_logs"][k] =
                      IF cls = "ClassifierCore" THEN Debiased(LossBatches(cls, hist))
                      ELSE Mean(k, LossBatches(cls, hist))

\* the calls made by a SRGanCore training batch, in order
TrainingProtocol ==
    << <<"forward", "netG", "inputs">>,
       <<"forward", "netD", "targets">>,
       <<"forward", "netD", "sr_images">>,
       <<"zero_grad", "netD", "-">>,
       <<"backward", "d_loss", "retain_graph">>,
       <<"step", "d_optim", "-">>,
       <<"criterion", "g_criterion", "d_sr_out">>,
       <<"zero_grad", "netG", "-">>,
       <<"backward", "g_loss", "-">>,
       <<"step", "g_optim", "-">>,
       <<"_update_loss_logs", "self", "-">> >>

\* C7: a SRGanCore training batch makes exactly these calls in this order:
\* generator forward, discriminator forward on the real and on the synthetic
\* images, discriminator zero_grad / backward (graph retained) / optimizer step,
\* generator criterion, generator zero_grad / backward / optimizer step, log
\* update.  The discriminator output handed to the criterion was computed with
\* the discriminator's parameters of before its step, by the only discriminator
\* pass over the synthetic images.
C7_TrainingOrder ==
    AfterBatch("SRGanCore", "training") =>
        /\ [i \in 1..Len(events) |-> <<events[i].fn, events[i].on, events[i].arg>>]
              = TrainingProtocol
        /\ events[7].ver = events[3].ver
        /\ events[6].ver = events[3].ver + 1
        /\ events[6].ver = self.netD.params
        /\ events[10].ver = events[1].ver + 1

\* the second training batch of a run
C7_Witness ==
    /\ AfterBatch("SRGanCore", "training")
    /\ self.netD.params = 2
    /\ events[7].ver = 1

\* C8: after the k-th SRGanCore training batch since the last on_new_epoch, each
\* of the six epoch_logs entries is the arithmetic mean of its stream over these
\* k batches and batch_logs holds the g_loss and d_loss of the k-th; validation
\* and eval calls in between change nothing of this.
C8_EpochLogsAreMeans ==
    AfterBatch("SRGanCore", "training") =>
        LET bs == LossBatches("SRGanCore", hist)
            k == Len(bs)
        IN  /\ k >= 1
            /\ \A name \in LossStreams : get_logs["epoch_logs"][name] = Mean(name, bs)
            /\ get_logs["batch_logs"]["g_loss"] = Stream("generator", bs[k])
            /\ get_logs["batch_logs"]["d_loss"] = Stream("discriminator", bs[k])

\* two training batches with different losses and an eval call between them
C8_Witness ==
    /\ AfterBatch("SRGanCore", "training")
    /\ Len(hist) = 3
    /\ hist[1] = [step |-> "training", batch |-> 1]
    /\ hist[2].step = "eval"
    /\ hist[3].batch = 2
    /\ get_logs["epoch_logs"]["tv"] = <<9, 2>>

\* C9: on_new_epoch resets every running average (one for ClassifierCore, six
\* for SRGanCore): the epoch_logs written by the first loss-computing batch of
\* an epoch hold the values of that batch alone.
C9_FirstBatchOfEpoch ==
    (IsForwardBatch(call) /\ ComputesLoss(cls, call.step)
        /\ Len(LossBatches(cls, hist)) = 1) =>
        LET b == hist[Len(hist)].batch
        IN  IF cls = "ClassifierCore"
            THEN \A k \in DOMAIN get_logs["epoch_logs"] :
                     get_logs["epoch_logs"][k] = <<LossOf(b), 1>>
            ELSE /\ DOMAIN get_logs["epoch_logs"] = LossStreams
                 /\ \A k \in LossStreams : get_logs["epoch_logs"][k] = <<Stream(k, b), 1>>

\* the first training batch of an epoch that follows an epoch with a training batch
C9_Witness ==
    /\ AfterBatch("SRGanCore", "training")
    /\ Len(LossBatches(cls, hist)) = 1
    /\ self.netG.params = 2

\* C10: on_new_epoch changes only the logs and the running averages: the model(s)
\* (their parameters, mode and device included), the optimizer(s) and the
\* criterion are after the call what they were before it, for both cores.
C10_NewEpochKeepsModels ==
    [][call'.op = "on_new_epoch" =>
         IF cls = "ClassifierCore"
         THEN /\ self'.model = self.model
              /\ self'.optim = self.optim
              /\ self'.crit = self.crit
         ELSE /\ self'.netG = self.netG
              /\ self'.netD = self.netD
              /\ self'.g_optim = self.g_optim
              /\ self'.d_optim = self.d_optim
              /\ self'.g_criterion = self.g_criterion]_vars

\* on_new_epoch on a trained ClassifierCore in eval mode on the GPU
C10_Witness ==
    /\ cls = "ClassifierCore"
    /\ call.op = "on_new_epoch"
    /\ self.model.params = 2
    /\ ~self.model.training
    /\ self.model.device = "gpu"

-----------------------------------------------------------------------------
(* Runs in which a collaborator fails: the external loop calls on_new_epoch   *)
(* and on_forward_batch, and any one model, criterion or optimizer call of a  *)
(* batch may raise; the run ends with the first exception that reaches it.    *)

\* the operation just called has raised
Failed == "type" \in DOMAIN ret /\ ret.type = "Exception"

\* the positions of the model, criterion and optimizer calls among evs
Collaborators(evs) ==
    {i \in 1..Len(evs) :
        evs[i].fn \in {"forward", "criterion", "zero_grad", "backward", "step"}}

\* an on_forward_batch call whose fault-th collaborator call raises
ForwardBatchFailing(c, step, b, fault, r) ==
    /\ cls = c
    /\ Len(hist) < MaxCalls
    /\ step \in {"prediction", "eval"} => b = 1
    /\ self' = r.self
    /\ call' = Called("on_forward_batch", step)
    /\ events' = r.events
    /\ ret' = r.ret
    /\ hist' = Append(hist, [step |-> step, batch |-> b, fault |-> fault])
    /\ UNCHANGED <<cls, disk>>

Fail_ClassifierCore_on_forward_batch ==
    \E step \in {"training", "validation", "prediction"}, b \in Batches :
        /\ cls = "ClassifierCore"
        /\ step = "training" => self.model.params < MaxSteps
        /\ \E fault \in
                Collaborators(ClassifierCore_on_forward_batch(self, step, LossOf(b), 0).events) :
              ForwardBatchFailing("ClassifierCore", step, b, fault,
                  ClassifierCore_on_forward_batch(self, step, LossOf(b), fault))

Fail_SRGanCore_on_forward_batch ==
    \E step \in Steps, b \in Batches :
        /\ cls = "SRGanCore"
        /\ step = "training" => self.netG.params < MaxSteps /\ self.netD.params < MaxSteps
        /\ \E fault \in
                Collaborators(SRGanCore_on_forward_batch(self, step, DLossOf(b),
                                                        GTermsOf(b), 0).events) :
              ForwardBatchFailing("SRGanCore", step, b, fault,
                  SRGanCore_on_forward_batch(self, step, DLossOf(b), GTermsOf(b), fault))

NextFail ==
    /\ ~Failed
    /\ \/ Call_ClassifierCore_on_new_epoch
       \/ Call_ClassifierCore_on_forward_batch
       \/ Fail_ClassifierCore_on_forward_batch
       \/ Call_SRGanCore_on_new_epoch
       \/ Call_SRGanCore_on_forward_batch
       \/ Fail_SRGanCore_on_forward_batch

SpecFail == Init /\ [][NextFail]_vars

\* the step taken is an on_forward_batch call in which a collaborator call raises
FailingBatch == IsForwardBatch(call') /\ "fault" \in DOMAIN hist'[Len(hist')]

\* among the calls evs some criterion call has returned (the last call of a
\* failed run is the one that raised)
CriterionReturned(evs) == \E i \in 1..(Len(evs) - 1) : evs[i].fn = "criterion"

\* C14: when a model, criterion or optimizer call raises inside on_forward_batch,
\* the caller gets that very exception and no further collaborator call is made;
\* ClassifierCore leaves its logs and its running average untouched unless the
\* criterion had returned, and then it has recorded that loss once (batch_logs,
\* one update) and no epoch_logs entry; SRGanCore, which records all its losses
\* after the last optimizer step, has no log entry and six untouched averages.
C14_FailuresPropagate ==
    [][FailingBatch =>
         /\ Failed'
         /\ ret' = Exception(events'[Len(events')])
         /\ Len(events') = hist'[Len(hist')].fault
         /\ IF cls = "SRGanCore"
            THEN get_logs' = EmptyDict /\ Meters(self') = Meters(self)
            ELSE IF CriterionReturned(events')
            THEN LET loss == LossOf(hist'[Len(hist')].batch)
                 IN  /\ self'.avg_meter = AverageMeter_update(self.avg_meter, loss)
                     /\ get_logs' = update(get_logs, "batch_logs" :> ("loss" :> loss))
            ELSE get_logs' = get_logs /\ self'.avg_meter = self.avg_meter]_vars

\* a validation batch whose criterion raises, after a training batch that succeeded
C14_Witness ==
    /\ cls = "ClassifierCore"
    /\ Failed
    /\ ret.fn = "criterion"
    /\ call.step = "validation"
    /\ self.avg_meter.count = 1
    /\ "train loss" \in DOMAIN get_logs["epoch_logs"]

-----------------------------------------------------------------------------

\* C11: SRGanCore toggles both models together: on_train_mode leaves the generator
\* and the discriminator both in training mode, on_eval_mode both in inference
\* mode, and no other operation (on_forward_batch, on_new_epoch, to_gpu,
\* get_models) changes the mode of either; so once one of the two was called, both
\* models are in the mode of the most recent such call.
C11_BothModelsToggleTogether ==
    [][cls = "SRGanCore" =>
         IF call'.op = "on_train_mode"
         THEN self'.netG.training /\ self'.netD.training
         ELSE IF call'.op = "on_eval_mode"
         THEN ~self'.netG.training /\ ~self'.netD.training
         ELSE /\ self'.netG.training = self.netG.training
              /\ self'.netD.training = self.netD.training]_vars

\* on_eval_mode called after a training batch
C11_Witness ==
    /\ cls = "SRGanCore"
    /\ call.op = "on_eval_mode"
    /\ self.netG.params = 1
    /\ ~self.netG.training
    /\ ~self.netD.training

\* the steps the interface documents (BaseCore.on_forward_batch)
DocumentedSteps == {"training", "validation", "prediction"}

\* C12: for both cores and every documented step, on_forward_batch returns the
\* output of the model (ClassifierCore) or of the generator (SRGanCore), computed
\* by a forward pass of that call.
C12_ReturnsModelOutput ==
    (IsForwardBatch(call) /\ call.step \in DocumentedSteps) =>
        /\ "by" \in DOMAIN ret
        /\ ret.by = IF cls = "ClassifierCore" THEN self.model.name ELSE self.netG.name
        /\ ret.params = events[1].ver

\* the entries the ClassifierCore calls of the epoch have recorded under epoch_logs
RecordedEpochKeys(h) ==
    {IF h[i].step = "training" THEN "train loss" ELSE "valid loss" :
        i \in {j \in 1..Len(h) : h[j].step # "prediction"}}

\* C13: ClassifierCore updates its logs incrementally: every entry an earlier
\* on_forward_batch call of the epoch recorded ("loss" under batch_logs, "train
\* loss" and "valid loss" under epoch_logs) is still present after a later call
\* records another, until on_new_epoch clears the logs.
C13_ClassifierKeepsEarlierEntries ==
    (cls = "ClassifierCore" /\ RecordedEpochKeys(hist) # {}) =>
        /\ DOMAIN get_logs = {"batch_logs", "epoch_logs"}
        /\ "loss" \in DOMAIN get_logs["batch_logs"]
        /\ RecordedEpochKeys(hist) \subseteq DOMAIN get_logs["epoch_logs"]

\* the attributes of a core that hold a model
OwnedModels == IF cls = "ClassifierCore" THEN {"model"} ELSE {"netG", "netD"}

\* C15: a to_gpu call moves every owned model to the accelerator and changes
\* nothing else (logs, running averages, modes, parameters and gradients are as
\* before), and a to_gpu call that follows a to_gpu call changes nothing at all.
C15_ToGpuIdempotent ==
    [][call'.op = "to_gpu" =>
         /\ DOMAIN self' = DOMAIN self
         /\ \A k \in DOMAIN self :
               self'[k] = IF k \in OwnedModels THEN [self[k] EXCEPT !.device = "gpu"]
                          ELSE self[k]
         /\ call.op = "to_gpu" => self' = self]_vars

\* to_gpu called in the middle of an epoch, the models being in training mode
C15_Witness ==
    /\ cls = "SRGanCore"
    /\ call.op = "to_gpu"
    /\ self.netG.device = "gpu"
    /\ self.netD.device = "gpu"
    /\ self.netG.training
    /\ self.netD.training
    /\ self.d_avg_meter.count = 1
    /\ DOMAIN get_logs = {"batch_logs", "epoch_logs"}

\* how many of the calls evs are calls of fn
Count(evs, fn) == Cardinality({i \in 1..Len(evs) : evs[i].fn = fn})

\* C17: a ClassifierCore on_forward_batch call with step "prediction" does not
\* call the criterion and leaves the running average and the logs as they were;
\* with any other step it calls the criterion once, updates the running average
\* once with the loss of the batch, and the epoch_logs value it records is read
\* from the average after that update.
C17_PredictionLeavesLogs ==
    [][(cls = "ClassifierCore" /\ IsForwardBatch(call')) =>
         IF call'.step = "prediction"
         THEN /\ Count(events', "criterion") = 0
              /\ self'.avg_meter = self.avg_meter
              /\ get_logs' = get_logs
         ELSE /\ Count(events', "criterion") = 1
              /\ self'.avg_meter =
                    AverageMeter_update(self.avg_meter, LossOf(hist'[Len(hist')].batch))
              /\ \A k \in DOMAIN get_logs'["epoch_logs"] :
                    get_logs'["epoch_logs"][k] = debias_loss(self'.avg_meter)]_vars

\* a prediction call after a training call of the same epoch
C17_Witness ==
    /\ AfterBatch("ClassifierCore", "prediction")
    /\ self.avg_meter.count = 1
    /\ "train loss" \in DOMAIN get_logs["epoch_logs"]
    /\ ~CalledCriterion

RECURSIVE GradBefore(_, _, _, _)
\* the gradient held by model m before the i-th of the calls evs, g0 being its
\* gradient before the first: zero_grad on m empties it, every backward adds its loss
GradBefore(m, g0, evs, i) ==
    IF i = 1 THEN g0
    ELSE LET g == GradBefore(m, g0, evs, i - 1)
             e == evs[i - 1]
         IN  IF e.fn = "zero_grad" /\ e.on = m THEN <<>>
             ELSE IF e.fn = "backward" THEN Append(g, e.on)
             ELSE g

\* the loss backpropagated in the phase of an optimizer
PhaseLoss(optim) == IF optim = "d_optim" THEN "d_loss" ELSE "g_loss"

\* C18: in SRGanCore, whenever an optimizer steps, the gradient of the model it
\* updates holds the loss of that phase only (d_loss for the discriminator, g_loss
\* for the generator), whatever batches came before; the gradient the other
\* phase's loss left on the model has been zeroed. The gradients the call leaves
\* are those its zero_grad and backward calls produce.
C18_GradientOfThisPhaseOnly ==
    [][cls = "SRGanCore" =>
         /\ \A i \in 1..Len(events') :
               events'[i].fn = "step" =>
                  LET m == self[events'[i].on].model
                  IN  GradBefore(m, self[m].grad, events', i) = <<PhaseLoss(events'[i].on)>>
         /\ \A m \in {"netG", "netD"} :
               self'[m].grad = GradBefore(m, self[m].grad, events', Len(events') + 1)]_vars

\* a second training batch, made after an eval batch, with the gradients the
\* first one left: g_loss on the generator, d_loss and g_loss on the discriminator
C18_Witness ==
    /\ AfterBatch("SRGanCore", "training")
    /\ Len(hist) = 3
    /\ hist[1].step = "training"
    /\ hist[2].step = "eval"
    /\ self.netG.params = 2
    /\ self.netG.grad = <<"g_loss">>
    /\ self.netD.grad = <<"d_loss", "g_loss">>

\* sum of two fractions
AddRat(a, b) == Rat(a[1] * b[2] + b[1] * a[2], a[2] * b[2])

\* C19: in every state of SRGanCore the six running averages have received the
\* same number of updates, the running sum of the generator average is the sum of
\* the running sums of the mse, adversarial, vgg and tv averages, and when
\* epoch_logs is present its generator entry is the sum of its mse, adversarial,
\* vgg and tv entries.
C19_MetersMoveTogether ==
    cls = "SRGanCore" =>
        /\ \A i \in 1..6 : Meters(self)[i].count = self.g_avg_meter.count
        /\ self.g_avg_meter.sum =
              self.mse_loss_meter.sum + self.adversarial_loss_meter.sum
                + self.vgg_loss_meter.sum + self.tv_loss_meter.sum
        /\ "epoch_logs" \in DOMAIN get_logs =>
              LET e == get_logs["epoch_logs"]
              IN  e["generator"] =
                     AddRat(AddRat(e["mse"], e["adversarial"]), AddRat(e["vgg"], e["tv"]))

\* two training batches with different losses in one epoch
C19_Witness ==
    /\ AfterBatch("SRGanCore", "training")
    /\ Len(hist) = 2
    /\ hist[1].step = "training"
    /\ hist[1].batch # hist[2].batch
    /\ self.g_avg_meter.count = 2
    /\ "epoch_logs" \in DOMAIN get_logs

\* the calls h are training batches followed by validation batches
TrainingThenValidation(h) ==
    /\ \A i \in 1..Len(h) : h[i].step \in {"training", "validation"}
    /\ \A i \in 1..(Len(h) - 1) : h[i].step = "validation" => h[i + 1].step = "validation"

\* the batches of the calls of h made with step
BatchesOf(h, step) ==
    LET Made(e) == e.step = step
        sel == SelectSeq(h, Made)
    IN  [i \in 1..Len(sel) |-> sel[i].batch]

\* C20 as stated: in an epoch of ClassifierCore made of training batches followed
\* by validation batches, the "valid loss" recorded by a validation batch is the
\* debiased average of the losses of the epoch's validation batches only, and the
\* "train loss" recorded by a training batch that of its training batches only.
C20_ValidLossOfValidationOnly ==
    (cls = "ClassifierCore" /\ IsForwardBatch(call) /\ TrainingThenValidation(hist)) =>
        IF call.step = "validation"
        THEN get_logs["epoch_logs"]["valid loss"] = Debiased(BatchesOf(hist, "validation"))
        ELSE get_logs["epoch_logs"]["train loss"] = Debiased(BatchesOf(hist, "training"))

-----------------------------------------------------------------------------
(* A program that uses torchlight.data.files on one cache directory *)

\* the lists of image files with pairwise distinct names
FileLists ==
    {fs \in UNION {[1..n -> FileNames] : n \in 0..MaxFiles} :
        \A i, j \in 1..Len(fs) : i # j => fs[i] # fs[j]}

InitFiles ==
    /\ cls = "torchlight.data.files"
    /\ self = None
    /\ call = Called("import", "-")
    /\ events = <<>>
    /\ ret = None
    /\ hist = <<>>
    /\ disk \in {NoDir, makedirs(NoDir)}

Call_to_blosc_arrays ==
    \E files \in FileLists :
        LET r == to_blosc_arrays(disk, files)
        IN  /\ \A n \in DOMAIN r.disk.cache : r.disk.cache[n] <= MaxWrites
            /\ disk' = r.disk
            /\ call' = Called("to_blosc_arrays", "-")
            /\ events' = r.events
            /\ ret' = r.ret
            /\ UNCHANGED <<cls, self, hist>>

Call_create_dir_if_not_exists ==
    /\ disk' = create_dir_if_not_exists(disk)
    /\ call' = Called("create_dir_if_not_exists", "-")
    /\ events' = <<>>
    /\ ret' = join("to_dir", "")
    /\ UNCHANGED <<cls, self, hist>>

Call_del_dir_if_exists ==
    /\ disk' = del_dir_if_exists(disk)
    /\ call' = Called("del_dir_if_exists", "-")
    /\ events' = <<>>
    /\ ret' = join("to_dir", "")
    /\ UNCHANGED <<cls, self, hist>>

NextFiles ==
    \/ Call_to_blosc_arrays
    \/ Call_create_dir_if_not_exists
    \/ Call_del_dir_if_exists

SpecFiles == InitFiles /\ [][NextFiles]_vars

\* C16: a to_blosc_arrays call does not cache again a file that is already
\* cached: for every file that has a cache entry when the call starts, the call
\* does not read the image and does not write the entry, also when other files
\* of the call have no entry yet.
C16_CachedFilesNotCachedAgain ==
    [][call'.op = "to_blosc_arrays" =>
         \A n \in DOMAIN disk.cache :
            /\ disk'.cache[n] = disk.cache[n]
            /\ \A i \in 1..Len(events') : events'[i].on # n]_vars

=============================================================================
